---- MODULE Spec2Model ----
(***************************************************************************)
(* BlockStructureCache (openedx/core/lib/block_structure/cache.py) and the *)
(* BlockStructure record model (content/block_structure/models.py).        *)
(*                                                                         *)
(* State: the STORAGE_BACKING_FOR_CACHE switch, the Django cache held in   *)
(* self._cache, the rows of the BlockStructure table, and for every caller *)
(* the operation it is in, its locals and how its last call ended.         *)
(* Python values are records tagged with their type, so that values of     *)
(* different types compare unequal, as they do in Python.                  *)
(***************************************************************************)
EXTENDS Integers, Sequences, FiniteSets, Bags, TLC

\* Bounds of the model.
MaxContent == 2
MaxToggles == 1

Procs == {"p1", "p2"}

\* ------------------------------------------------------------------------
\* Python values
\* ------------------------------------------------------------------------
None == [type |-> "NoneType"]

Integer(n) == [type |-> "int", value |-> n]

\* A text value (python 2 str or unicode; the two compare equal when they
\* hold the same characters).  ascii: every character is an ASCII one.
Text(t) == [type |-> "text", text |-> t, ascii |-> TRUE]

NonAsciiText(t) == [type |-> "text", text |-> t, ascii |-> FALSE]

\* a + b on texts
Concat(a, b) ==
    [type |-> "text", text |-> a.text \o b.text, ascii |-> a.ascii /\ b.ascii]

\* sep.join(parts)
RECURSIVE Join(_, _)
Join(sep, parts) ==
    IF Len(parts) = 0 THEN Text("")
    ELSE IF Len(parts) = 1 THEN parts[1]
    ELSE Concat(Concat(parts[1], sep), Join(sep, Tail(parts)))

DateTime(t) == [type |-> "datetime", iso |-> t]

\* A usage key of one course; block_id is the text of its last part.
UsageKeyOf(block_id) == [type |-> "UsageKey", block_id |-> block_id]

UsageKey(i) == UsageKeyOf(Text("r" \o ToString(i)))

\* The root keys callers use: one to act on and another to tell apart.
Roots == {UsageKey(1), UsageKey(2)}

\* A usage key whose block id has a non-ASCII character.
AccentedKey == UsageKeyOf(NonAsciiText("r\\xe9"))

\* A block structure object as add() reads it: the root key and the three
\* tables.  The class defines neither equality nor a text method, so an
\* object is told apart and rendered by where it lives: address.
BlockStructureOf(address, root, rel, td, bd) ==
    [type |-> "BlockStructure",
     address |-> address,
     root_block_usage_key |-> root,
     _block_relations |-> rel,
     transformer_data |-> td,
     _block_data_map |-> bd]

StructureFor(address, r, c) ==
    BlockStructureOf(address, r, <<r, c>>, <<"T", c>>, <<"attrs", c>>)

\* Where the allocator may put an object.
Addresses == 1..(MaxContent + 3)

\* The structure objects callers add, all alive at once: the first root in
\* every content version, the second root in one.
Structures ==
    {StructureFor(c, UsageKey(1), c) : c \in 1..MaxContent}
        \cup {StructureFor(MaxContent + 1, UsageKey(2), 1)}

\* Where a new object can be put while the callers' objects are alive.
FreeAddresses == Addresses \ {bs.address : bs \in Structures}

\* unicode(x): the text rendering of a value.  A text is itself, None is
\* "None", a number its digits, a datetime its ISO form, a usage key its
\* serialized form, and an object without a text method is named by its
\* class and its address, whatever it holds.
unicode(x) ==
    CASE x.type = "text" -> x
      [] x.type = "NoneType" -> Text("None")
      [] x.type = "int" -> Text(ToString(x.value))
      [] x.type = "datetime" -> Text(x.iso)
      [] x.type = "UsageKey" ->
            Concat(Text("block-v1:org+c+r+type@course+block@"), x.block_id)
      [] x.type = "BlockStructure" ->
            Text("<BlockStructure object at " \o ToString(x.address) \o ">")

\* An exception-or-value result of a call.
Ok(v) == [exc |-> "none", val |-> v]
Raise(e) == [exc |-> e, val |-> None]

\* ------------------------------------------------------------------------
\* Program constants
\* ------------------------------------------------------------------------
\* BlockStructureBlockData.VERSION, used by the unversioned key.
VERSION == 2

\* cache.py:119  timeout_in_seconds = 60 * 60 * 24
timeout_in_seconds == 60 * 60 * 24

\* The attributes a BlockStructureCache instance has (cache.py:18-207).
ClassAttributes ==
    {"_cache", "add", "get", "delete", "_get_model",
     "_create_or_update_model", "_add_to_cache", "_get_from_cache",
     "_get_from_store", "_serialize", "_deserialize",
     "_encode_root_cache_key"}

\* Positional parameters of _encode_root_cache_key besides cls
\* (root_block_usage_key, bs_model), and the number delete() passes.
EncodeKeyParams == 2
DeleteCallArgs == 1

\* The five fields that make up the versioned key, in order.
FieldNames ==
    <<"data_usage_key", "data_version", "data_edit_timestamp",
      "transformers_schema_version", "block_structure_schema_version">>

\* ------------------------------------------------------------------------
\* Serialization (zpickle / zunpickle)
\* ------------------------------------------------------------------------
\* zpickle: a compressed pickle of the value; never empty.
zpickle(data) == [type |-> "bytes", z |-> "zlib", pickled |-> data]

IsZPickle(b) == /\ DOMAIN b = {"type", "z", "pickled"}
                /\ b.type = "bytes"
                /\ b.z = "zlib"

zunpickle(b) == IF IsZPickle(b) THEN Ok(b.pickled) ELSE Raise("DecodeError")

_serialize(bs) ==
    zpickle(<<bs._block_relations, bs.transformer_data, bs._block_data_map>>)

\* address: where the new object is put.
_deserialize(serialized_data, root, address) ==
    LET u == zunpickle(serialized_data) IN
    IF u.exc # "none" THEN u
    ELSE IF Len(u.val) # 3 THEN Raise("ValueError")
    ELSE Ok(BlockStructureOf(address, root, u.val[1], u.val[2], u.val[3]))

\* ------------------------------------------------------------------------
\* models.BlockStructure (the durable records)
\* ------------------------------------------------------------------------
NoFile == [type |-> "FieldFile", name |-> None]

\* The table is a bag of rows: nothing in the model's fields is unique, so
\* two rows may agree on every column.

\* Every value of a lookup or of a new row is first prepared for its column
\* (models.py:14-40): a usage key column takes a usage key, a timestamp
\* column a time or NULL, a text column any value, as text.  PrepErrors is
\* what preparing kwargs can raise; the code does not fix which column is
\* prepared first.
PrepErrors(kwargs) ==
    (IF kwargs.data_usage_key.type = "UsageKey" THEN {} ELSE {"AssertionError"})
        \cup (IF kwargs.data_edit_timestamp.type \in {"NoneType", "datetime"}
              THEN {} ELSE {"TypeError"})

\* The outcomes of preparing kwargs: "none" when every value fits.
PrepOutcomes(kwargs) ==
    IF PrepErrors(kwargs) = {} THEN {"none"} ELSE PrepErrors(kwargs)

\* The rows a lookup matches, each as often as the table holds it.
Matching(st, lookup) ==
    LET rows == {r \in BagToSet(st) : \A f \in DOMAIN lookup : r[f] = lookup[f]}
    IN  [r \in rows |-> CopiesIn(r, st)]

\* objects.get(**lookup), the lookup values being of the columns' types
objects_get(st, lookup) ==
    LET found == Matching(st, lookup) IN
    IF BagCardinality(found) = 0 THEN Raise("DoesNotExist")
    ELSE IF BagCardinality(found) = 1
    THEN Ok(CHOOSE r \in BagToSet(found) : TRUE)
    ELSE Raise("MultipleObjectsReturned")

\* objects.create(**kwargs), the values being of the columns' types: a new
\* row; the file field is left empty.
objects_create(st, kwargs) == st (+) SetToBag({[data |-> NoFile] @@ kwargs})

\* QuerySet.update_or_create(**kwargs) with no defaults, run without
\* another writer in between.  The values are prepared first (prep is the
\* outcome of that, one of PrepOutcomes(kwargs)); a value that does not fit
\* its column ends the call before the table is read.  Then get(**kwargs):
\* the row found is saved as it is, a new row is created when there is none.
update_or_create(st, kwargs, prep) ==
    IF prep # "none" THEN [exc |-> prep, store |-> st]
    ELSE LET g == objects_get(st, kwargs) IN
         IF g.exc = "DoesNotExist"
         THEN [exc |-> "none", store |-> objects_create(st, kwargs)]
         ELSE [exc |-> g.exc, store |-> st]

\* BlockStructure.update_or_create_with_data: serialized_data is not used
\* and nothing is returned.
update_or_create_with_data(st, serialized_data, kwargs, prep) ==
    LET r == update_or_create(st, kwargs, prep) IN
    [exc |-> r.exc, val |-> None, store |-> r.store]

\* BlockStructure.get_current
get_current(st, data_usage_key) ==
    LET g == objects_get(st, [data_usage_key |-> data_usage_key]) IN
    IF g.exc = "DoesNotExist" THEN Raise("BlockStructureNotFound") ELSE g

\* BlockStructure.get_serialized_data: self.data.read()
get_serialized_data(bs_model) ==
    IF bs_model.data = NoFile THEN Raise("ValueError") ELSE Ok(bs_model.data)

\* ------------------------------------------------------------------------
\* BlockStructureCache helpers
\* ------------------------------------------------------------------------
_get_model(fl, st, root) ==
    IF fl THEN get_current(st, root) ELSE Ok(None)

\* The keyword arguments _create_or_update_model passes: every field is
\* given the block structure itself, which fits none of the columns.
ModelKwargs(bs) ==
    [f \in {FieldNames[i] : i \in 1..Len(FieldNames)} |-> bs]

_create_or_update_model(fl, st, bs, serialized_data, prep) ==
    IF fl
    THEN update_or_create_with_data(st, serialized_data, ModelKwargs(bs), prep)
    ELSE [exc |-> "none", val |-> None, store |-> st]

\* field_name + '@' + unicode(getattr(bs_model, field_name))
KeyPart(bs_model, field_name) ==
    Concat(Concat(Text(field_name), Text("@")), unicode(bs_model[field_name]))

\* "v{version}.root.key.{root_usage_key}".format(...): a byte-string
\* template encodes its arguments as ASCII.
FormatStaticKey(version, root_usage_key) ==
    IF version.ascii /\ root_usage_key.ascii
    THEN Ok(Concat(Concat(Text("v"), version),
                   Concat(Text(".root.key."), root_usage_key)))
    ELSE Raise("UnicodeEncodeError")

_encode_root_cache_key(fl, root, bs_model) ==
    IF fl
    THEN IF bs_model = None THEN Raise("AssertionError")
         ELSE Ok(Join(Text(":"), [i \in 1..Len(FieldNames) |->
                                     KeyPart(bs_model, FieldNames[i])]))
    ELSE FormatStaticKey(unicode(Integer(VERSION)), unicode(root))

\* django cache: set / get / delete on a key -> entry mapping.
CacheSet(c, key, value, timeout) ==
    [k \in DOMAIN c \cup {key} |->
        IF k = key THEN [value |-> value, timeout |-> timeout] ELSE c[k]]

CacheGet(c, key) == IF key \in DOMAIN c THEN c[key].value ELSE None

\* Python truth of what cache.get returned ("if not serialized_data").
EmptyBytes == [type |-> "bytes", z |-> "none", pickled |-> <<>>]

Falsy(v) == v = None \/ v = EmptyBytes

CacheDelete(c, key) == [k \in DOMAIN c \ {key} |-> c[k]]

_get_from_cache(fl, c, root, bs_model) ==
    LET k == _encode_root_cache_key(fl, root, bs_model) IN
    IF k.exc # "none" THEN k
    ELSE IF Falsy(CacheGet(c, k.val)) THEN Raise("BlockStructureNotFound")
    ELSE Ok(CacheGet(c, k.val))

_get_from_store(fl, root, bs_model) ==
    IF ~fl THEN Raise("BlockStructureNotFound")
    ELSE IF bs_model = None THEN Raise("AttributeError")
    ELSE get_serialized_data(bs_model)

\* ------------------------------------------------------------------------
\* BlockStructureCache.get and .delete
\* ------------------------------------------------------------------------
\* get(): line 70 looks up self._get_current_model, which the class does
\* not define, so the attribute lookup raises before anything is read.
\* The rest is lines 72-77.
get(fl, c, st, root, address) ==
    IF "_get_current_model" \notin ClassAttributes
    THEN [exc |-> "AttributeError", val |-> None, source |-> "none"]
    ELSE
        LET m == _get_model(fl, st, root) IN
        IF m.exc # "none" THEN [exc |-> m.exc, val |-> None, source |-> "none"]
        ELSE
            LET fc == _get_from_cache(fl, c, root, m.val)
                fs == _get_from_store(fl, root, m.val)
                data == IF fc.exc = "BlockStructureNotFound" THEN fs ELSE fc
                src == IF fc.exc = "BlockStructureNotFound" THEN "store" ELSE "cache"
            IN  IF data.exc # "none"
                THEN [exc |-> data.exc, val |-> None, source |-> src]
                ELSE LET d == _deserialize(data.val, root, address) IN
                     [exc |-> d.exc, val |-> d.val, source |-> src]

\* delete() as it would be if it always removed the entry under the
\* unversioned key, whatever the mode.
delete_static_key(fl, c, root) ==
    LET k == _encode_root_cache_key(FALSE, root, None) IN
    [exc |-> "none", cache |-> CacheDelete(c, k.val)]

\* delete(): line 89 calls _encode_root_cache_key with the root key only,
\* one argument short, so the call raises before self._cache.delete runs.
delete(fl, c, root) ==
    IF DeleteCallArgs # EncodeKeyParams
    THEN [exc |-> "TypeError", cache |-> c]
    ELSE
        LET k == _encode_root_cache_key(fl, root, None) IN
        IF k.exc # "none" THEN [exc |-> k.exc, cache |-> c]
        ELSE [exc |-> "none", cache |-> CacheDelete(c, k.val)]

\* _add_to_cache as it would be if the timeout were one hour.
add_to_cache_one_hour(fl, c, bs, serialized_data, bs_model) ==
    LET k == _encode_root_cache_key(fl, bs.root_block_usage_key, bs_model) IN
    IF k.exc # "none" THEN [exc |-> k.exc, cache |-> c]
    ELSE [exc |-> "none", cache |-> CacheSet(c, k.val, serialized_data, 60 * 60)]

\* _add_to_cache: compute the key, then cache.set with the one-day timeout.
_add_to_cache(fl, c, bs, serialized_data, bs_model) ==
    LET k == _encode_root_cache_key(fl, bs.root_block_usage_key, bs_model) IN
    IF k.exc # "none" THEN [exc |-> k.exc, cache |-> c]
    ELSE [exc |-> "none",
          cache |-> CacheSet(c, k.val, serialized_data, timeout_in_seconds)]

\* ------------------------------------------------------------------------
\* State
\* ------------------------------------------------------------------------
VARIABLES
    flag,       \* config.is_enabled(STORAGE_BACKING_FOR_CACHE)
    cache,      \* self._cache: key -> [value, timeout]
    store,      \* rows of models.BlockStructure, a bag
    pc,         \* per caller: where it is
    op,         \* per caller: the call it made last, [name, arg]
    locals,     \* per caller: serialized_data and bs_model of add()
    result,     \* per caller: how its last call ended
    callers,    \* the callers that use the cache object in this run
    toggles,    \* how often the switch has been flipped so far
    lastAdd,    \* history, per root: NeverAdded until the first add for
                \* it is called; the structure of the last add that
                \* returned normally with no add or delete on that root
                \* running or started since; None otherwise
    keyIn,      \* two argument lists for _encode_root_cache_key
    keyOut      \* the two keys it returned for them, once called

vars == <<flag, cache, store, pc, op, locals, result, callers, toggles, lastAdd,
          keyIn, keyOut>>

NeverAdded == [type |-> "NeverAdded"]

NoOp == [name |-> "none", arg |-> None]
NoLocals == [serialized_data |-> None, bs_model |-> None]
NoResult == [exc |-> "none", val |-> None, source |-> "none"]

EmptyCache == [k \in {} |-> None]

InitState ==
    /\ flag \in BOOLEAN
    /\ cache = EmptyCache
    /\ store = EmptyBag
    /\ pc = [p \in Procs |-> "idle"]
    /\ op = [p \in Procs |-> NoOp]
    /\ locals = [p \in Procs |-> NoLocals]
    /\ result = [p \in Procs |-> NoResult]
    /\ toggles = 0
    /\ lastAdd = [r \in Roots |-> NeverAdded]

NoKeys == <<>>

\* One caller at a time.
Init ==
    /\ InitState
    /\ callers = {"p1"}
    /\ keyIn = NoKeys
    /\ keyOut = NoKeys

\* Several callers share the cache object.
InitConcurrent ==
    /\ InitState
    /\ callers = Procs
    /\ keyIn = NoKeys
    /\ keyOut = NoKeys

\* Rows as the table can hold them: a usage key, a version token, an edit
\* timestamp or NULL, and the two schema versions, which are free text and
\* may hold the characters the key is built with.
Records ==
    [data_usage_key : Roots \cup {AccentedKey},
     data_version : {Text("dv1"), Text("dv2")},
     data_edit_timestamp : {None, DateTime("2017-01-01 00:00:00")},
     transformers_schema_version :
        {Text("1"), Text("1:block_structure_schema_version@2")},
     block_structure_schema_version :
        {Text("3"), Text("2:block_structure_schema_version@3")},
     data : {NoFile}]

\* The root keys the key encoder is called with.
KeyRoots == Roots \cup {AccentedKey}

\* The argument lists the key encoder is called with (cache.py:115, 133):
\* storage-backed, a root key and the row got for it; otherwise a root key
\* and None.
KeyInputs(fl) ==
    IF fl
    THEN {[root |-> m.data_usage_key, bs_model |-> m] : m \in Records}
    ELSE {[root |-> r, bs_model |-> None] : r \in KeyRoots}

\* _encode_root_cache_key on its own: two calls in the same mode.
InitKey ==
    /\ InitState
    /\ callers = {}
    /\ keyIn \in [1..2 -> KeyInputs(flag)]
    /\ keyOut = NoKeys

\* The values update_or_create_with_data is called with directly: the
\* version fields of a root, of the columns' types.
UpsertKwargs ==
    [data_usage_key : Roots,
     data_version : {Text("dv1"), Text("dv2")},
     data_edit_timestamp : {None, DateTime("2017-01-01 00:00:00")},
     transformers_schema_version : {Text("1")},
     block_structure_schema_version : {Text("3")}]

\* Those of the first root in its first version.
SeedKwargs == {k \in UpsertKwargs : /\ k.data_usage_key = UsageKey(1)
                                    /\ k.data_version = Text("dv1")
                                    /\ k.data_edit_timestamp = None}

\* Some payload.
SomeBlob == zpickle(<<"relations", "transformer_data", "block_data">>)

CanCall(p) == pc[p] \in {"idle", "done"}

\* Another caller is inside add() on this root.
AddRunning(p, root) ==
    \E q \in Procs \ {p} :
        /\ pc[q] \in {"create_or_update_model", "add_to_cache"}
        /\ op[q].arg.root_block_usage_key = root

\* add() has no try/except (lines 44-47): an exception raised by a step
\* ends the call, otherwise the call goes on to the next step.
add_swallows_errors(exc, next) == next

AddNextPc(exc, next) == IF exc = "none" THEN next ELSE "done"

\* _serialize when the pickler may refuse the structure's tables.
Serialize(bs, fault) ==
    IF fault THEN Raise("PicklingError") ELSE Ok(_serialize(bs))

\* add(), line 44: serialized_data = self._serialize(block_structure)
AddSerialize(p, bs, fault) ==
    /\ CanCall(p)
    /\ LET r == Serialize(bs, fault) IN
       /\ pc' = [pc EXCEPT ![p] = AddNextPc(r.exc, "create_or_update_model")]
       /\ locals' = [locals EXCEPT ![p] =
                        [serialized_data |-> r.val, bs_model |-> None]]
       /\ result' = [result EXCEPT ![p] =
                        [exc |-> r.exc, val |-> None, source |-> "none"]]
    /\ op' = [op EXCEPT ![p] = [name |-> "add", arg |-> bs]]
    /\ lastAdd' = [lastAdd EXCEPT ![bs.root_block_usage_key] = None]
    /\ UNCHANGED <<flag, cache, store, toggles, callers, keyIn, keyOut>>

\* add(), line 46: bs_model = self._create_or_update_model(...)
AddCreateOrUpdateModel(p) ==
    /\ pc[p] = "create_or_update_model"
    /\ \E prep \in PrepOutcomes(ModelKwargs(op[p].arg)) :
          LET r == _create_or_update_model(flag, store, op[p].arg,
                                           locals[p].serialized_data, prep)
          IN
          /\ store' = r.store
          /\ pc' = [pc EXCEPT ![p] = AddNextPc(r.exc, "add_to_cache")]
          /\ locals' = [locals EXCEPT ![p].bs_model = r.val]
          /\ result' = [result EXCEPT ![p] =
                           [exc |-> r.exc, val |-> None, source |-> "none"]]
    /\ UNCHANGED <<flag, cache, op, toggles, callers, lastAdd, keyIn, keyOut>>

\* add(), line 47: self._add_to_cache(block_structure, serialized_data, bs_model)
AddToCache(p) ==
    /\ pc[p] = "add_to_cache"
    /\ LET bs == op[p].arg
           r == _add_to_cache(flag, cache, bs, locals[p].serialized_data,
                              locals[p].bs_model)
       IN
       /\ cache' = r.cache
       /\ result' = [result EXCEPT ![p] =
                        [exc |-> r.exc, val |-> None, source |-> "none"]]
       /\ lastAdd' = [lastAdd EXCEPT ![bs.root_block_usage_key] =
                         IF r.exc = "none" /\ ~AddRunning(p, bs.root_block_usage_key)
                         THEN bs ELSE None]
    /\ pc' = [pc EXCEPT ![p] = "done"]
    /\ UNCHANGED <<flag, store, op, locals, toggles, callers, keyIn, keyOut>>

\* get(root_block_usage_key)
Get(p, root) ==
    /\ CanCall(p)
    /\ pc' = [pc EXCEPT ![p] = "done"]
    /\ op' = [op EXCEPT ![p] = [name |-> "get", arg |-> root]]
    /\ locals' = [locals EXCEPT ![p] = NoLocals]
    /\ \E address \in FreeAddresses :
          result' = [result EXCEPT ![p] = get(flag, cache, store, root, address)]
    /\ UNCHANGED <<flag, cache, store, toggles, callers, lastAdd, keyIn, keyOut>>

\* delete(root_block_usage_key)
Delete(p, root) ==
    /\ CanCall(p)
    /\ LET r == delete(flag, cache, root) IN
       /\ cache' = r.cache
       /\ result' = [result EXCEPT ![p] =
                        [exc |-> r.exc, val |-> None, source |-> "none"]]
    /\ pc' = [pc EXCEPT ![p] = "done"]
    /\ op' = [op EXCEPT ![p] = [name |-> "delete", arg |-> root]]
    /\ locals' = [locals EXCEPT ![p] = NoLocals]
    /\ lastAdd' = [lastAdd EXCEPT ![root] =
                      IF lastAdd[root] = NeverAdded THEN NeverAdded ELSE None]
    /\ UNCHANGED <<flag, store, toggles, callers, keyIn, keyOut>>

\* BlockStructure.update_or_create_with_data(serialized_data, **kwargs)
\* called with values of the columns' types.  update_or_create is a
\* get(**kwargs) followed, when no row matched, by a create(**kwargs); the
\* two are separate statements, and another caller's statement may run in
\* between.  This step runs the call to its end unless the get finds no row.
UpdateOrCreateWithData(p, kwargs) ==
    /\ CanCall(p)
    /\ PrepErrors(kwargs) = {}
    /\ LET missing == objects_get(store, kwargs).exc = "DoesNotExist"
           r == update_or_create_with_data(store, SomeBlob, kwargs, "none")
       IN
       /\ pc' = [pc EXCEPT ![p] = IF missing THEN "update_or_create" ELSE "done"]
       /\ result' = [result EXCEPT ![p] =
                        [exc |-> IF missing THEN "none" ELSE r.exc,
                         val |-> None, source |-> "none"]]
    /\ op' = [op EXCEPT ![p] = [name |-> "update_or_create_with_data",
                                arg |-> kwargs]]
    /\ locals' = [locals EXCEPT ![p] = NoLocals]
    /\ UNCHANGED <<flag, cache, store, toggles, callers, lastAdd, keyIn, keyOut>>

\* The rest of that call when the get found no row: the row is created
\* (another caller may have created the same row since) and nothing is
\* returned.
UpdateOrCreateCreate(p) ==
    /\ pc[p] = "update_or_create"
    /\ store' = objects_create(store, op[p].arg)
    /\ pc' = [pc EXCEPT ![p] = "done"]
    /\ result' = [result EXCEPT ![p] = NoResult]
    /\ UNCHANGED <<flag, cache, op, locals, toggles, callers, lastAdd,
                   keyIn, keyOut>>

\* The cache drops an entry whose timeout has run out.
Expire(key) ==
    /\ key \in DOMAIN cache
    /\ cache' = CacheDelete(cache, key)
    /\ UNCHANGED <<flag, store, pc, op, locals, result, toggles, callers, lastAdd, keyIn, keyOut>>

\* The bytes a cache entry holds are damaged in the cache server: cut short,
\* possibly down to nothing.
Truncated == [type |-> "bytes", z |-> "truncated", pickled |-> <<>>]

Damaged == {Truncated, EmptyBytes}

Corrupt(key, damaged) ==
    /\ key \in DOMAIN cache
    /\ cache[key].value # damaged
    /\ cache' = [cache EXCEPT ![key].value = damaged]
    /\ UNCHANGED <<flag, store, pc, op, locals, result, toggles, callers, lastAdd,
                   keyIn, keyOut>>

\* The switch is flipped while the process runs.
ToggleFlag ==
    /\ toggles < MaxToggles
    /\ toggles' = toggles + 1
    /\ flag' = ~flag
    /\ UNCHANGED <<cache, store, pc, op, locals, result, callers, lastAdd, keyIn, keyOut>>

\* The two calls of _encode_root_cache_key are made.
EncodeKeys ==
    /\ keyIn # NoKeys
    /\ keyOut = NoKeys
    /\ keyOut' = [i \in 1..2 |->
                     _encode_root_cache_key(flag, keyIn[i].root, keyIn[i].bs_model)]
    /\ UNCHANGED <<flag, cache, store, pc, op, locals, result, callers, toggles,
                   lastAdd, keyIn>>

Next ==
    \/ \E p \in callers, bs \in Structures, fault \in BOOLEAN :
          AddSerialize(p, bs, fault)
    \/ \E p \in callers : AddCreateOrUpdateModel(p)
    \/ \E p \in callers : AddToCache(p)
    \/ \E p \in callers, root \in Roots : Get(p, root)
    \/ \E p \in callers, root \in Roots : Delete(p, root)
    \/ \E key \in DOMAIN cache : Expire(key)
    \/ \E p \in callers, kwargs \in SeedKwargs : UpdateOrCreateWithData(p, kwargs)
    \/ \E p \in callers : UpdateOrCreateCreate(p)

\* The switch keeps the value it had at start.
Spec == Init /\ [][Next]_vars

NextToggle ==
    \/ Next
    \/ ToggleFlag

\* The switch may be flipped at any moment, also between two steps of a call.
SpecToggle == Init /\ [][NextToggle]_vars

\* Several callers, whose steps interleave.
SpecConcurrent == InitConcurrent /\ [][Next]_vars

NextCorrupt ==
    \/ Next
    \/ \E key \in DOMAIN cache, damaged \in Damaged : Corrupt(key, damaged)

\* Cache entries may get damaged.
SpecCorrupt == Init /\ [][NextCorrupt]_vars

NextModel ==
    \/ \E p \in callers, kwargs \in UpsertKwargs : UpdateOrCreateWithData(p, kwargs)
    \/ \E p \in callers : UpdateOrCreateCreate(p)

\* The record model on its own: a caller upserts version fields of the roots.
SpecModel == Init /\ [][NextModel]_vars

NextKey == EncodeKeys

\* The key encoder applied to pairs of argument lists.
SpecKey == InitKey /\ [][NextKey]_vars

TypeOK ==
    /\ flag \in BOOLEAN
    /\ callers \subseteq Procs
    /\ toggles \in 0..MaxToggles
    /\ IsABag(store)
    /\ BagToSet(store) \subseteq {[data |-> NoFile] @@ k : k \in UpsertKwargs}
    /\ \A p \in Procs :
          pc[p] \in {"idle", "create_or_update_model", "add_to_cache",
                     "update_or_create", "done"}
    /\ \A k \in DOMAIN cache : cache[k].timeout = timeout_in_seconds

\* ------------------------------------------------------------------------
\* Properties
\* ------------------------------------------------------------------------
\* The rows objects.get(data_usage_key=root) matches.
RowsOf(root) == BagToSet(Matching(store, [data_usage_key |-> root]))

\* How many rows the table holds for a root.
RowCount(root) == BagCardinality(Matching(store, [data_usage_key |-> root]))

StaticKey(root) == _encode_root_cache_key(FALSE, root, None).val

VersionedKey(row) == _encode_root_cache_key(TRUE, row.data_usage_key, row).val

\* The key a call on root computes in the current mode, when it computes
\* one: _encode_root_cache_key(root, _get_model(root)).
ResolvableKeys(root) ==
    LET m == _get_model(flag, store, root) IN
    IF m.exc # "none" THEN {}
    ELSE LET k == _encode_root_cache_key(flag, root, m.val) IN
         IF k.exc = "none" THEN {k.val} ELSE {}

SameTables(a, b) ==
    /\ a._block_relations = b._block_relations
    /\ a.transformer_data = b.transformer_data
    /\ a._block_data_map = b._block_data_map

\* The call returned normally with a structure rooted at root whose three
\* tables are those of bs.
Returned(res, root, bs) ==
    /\ res.exc = "none"
    /\ res.val # None
    /\ res.val.root_block_usage_key = root
    /\ SameTables(res.val, bs)

\* C1 (as claimed): in both modes, a get(root) that follows a successful
\* add(s) for that root, with no add or delete for the root in between,
\* returns normally a structure rooted there with s's three tables.
C1_AddThenGet ==
    [][\A p \in Procs, root \in Roots :
        (Get(p, root) /\ lastAdd[root] \in Structures)
            => Returned(result'[p], root, lastAdd[root])]_vars

\* C2 (as claimed): storage-backed, the table holds the one row of the
\* root and the cache holds nothing under the root's key: get(root) returns
\* normally a structure rooted there with the tables of an added structure,
\* read from the row's stored blob.
C2_FallbackToStore ==
    [][\A p \in Procs, root \in Roots :
        (/\ Get(p, root)
         /\ flag
         /\ RowCount(root) = 1
         /\ ResolvableKeys(root) \cap DOMAIN cache = {})
            => /\ \E bs \in Structures : Returned(result'[p], root, bs)
               /\ result'[p].source = "store"]_vars

\* C3 (as claimed): storage-backed, the root has its row: delete(root)
\* returns normally, and the get(root) the caller makes next returns
\* normally the tables of an added structure.
C3_DeleteNonDestructive ==
    [][\A p \in Procs, root \in Roots :
        (flag /\ RowCount(root) = 1)
            => /\ Delete(p, root) => result'[p].exc = "none"
               /\ (/\ pc[p] = "done"
                   /\ op[p] = [name |-> "delete", arg |-> root]
                   /\ Get(p, root))
                      => \E bs \in Structures :
                            Returned(result'[p], root, bs)]_vars

\* C4 (as claimed): get(root) for a root never added and without a row
\* fails with BlockStructureNotFound and nothing else, in both modes.
C4_MissIsNotFound ==
    [][\A p \in Procs, root \in Roots :
        (/\ Get(p, root)
         /\ lastAdd[root] = NeverAdded
         /\ RowsOf(root) = {})
            => result'[p].exc = "BlockStructureNotFound"]_vars

C7_DeleteFrame ==
    [][\A p \in Procs, root \in Roots :
        Delete(p, root)
            => /\ store' = store
               /\ DOMAIN cache' \subseteq DOMAIN cache
               /\ Cardinality(DOMAIN cache \ DOMAIN cache') <= 1
               /\ (DOMAIN cache \ DOMAIN cache') \subseteq ResolvableKeys(root)
               /\ \A k \in DOMAIN cache' : cache'[k] = cache[k]]_vars

\* C7 witness: a delete has run while the table had a row and the cache
\* held an entry under a key that is not resolvable for the deleted root.
C7_Witness ==
    \E p \in callers :
        /\ pc[p] = "done"
        /\ op[p].name = "delete"
        /\ store # EmptyBag
        /\ \E k \in DOMAIN cache : k \notin ResolvableKeys(op[p].arg)

\* C8 (as claimed): storage-backed, no row for the root: delete(root)
\* returns normally and leaves cache and table as they were.
C8_DeleteUnresolvableNoOp ==
    [][\A p \in Procs, root \in Roots :
        (/\ Delete(p, root)
         /\ flag
         /\ RowsOf(root) = {}
         /\ get_current(store, root).exc = "BlockStructureNotFound")
            => /\ result'[p].exc = "none"
               /\ cache' = cache
               /\ store' = store]_vars

\* C9 (as claimed): storage-backed, the step that ends an add(s), no
\* serialization fault injected, ends it normally and leaves a row for s's
\* root and a cache entry holding s's payload under that row's versioned
\* key.
C9_AddWritesBothTiers ==
    [][\A p \in Procs :
        (/\ flag
         /\ pc[p] \in {"create_or_update_model", "add_to_cache"}
         /\ pc'[p] = "done")
            => /\ result'[p].exc = "none"
               /\ \E row \in BagToSet(store') :
                     /\ row.data_usage_key = op[p].arg.root_block_usage_key
                     /\ VersionedKey(row) \in DOMAIN cache'
                     /\ cache'[VersionedKey(row)].value = _serialize(op[p].arg)]_vars

\* C10 (as claimed): with the switch off no step of add, get or delete
\* changes the table of rows, and a get(root) that finds nothing under the
\* root's key fails with BlockStructureNotFound.
C10_FlagOffNoDurableTier ==
    [][~flag =>
        /\ (\A p \in Procs : ~UpdateOrCreateCreate(p)) => store' = store
        /\ \A p \in Procs, root \in Roots :
              (Get(p, root) /\ StaticKey(root) \notin DOMAIN cache)
                  => result'[p].exc = "BlockStructureNotFound"]_vars

\* The fields in which two rows differ.
DifferingFields(m1, m2) ==
    {i \in 1..Len(FieldNames) : m1[FieldNames[i]] # m2[FieldNames[i]]}

KeysDiffer ==
    /\ keyOut[1].exc = "none"
    /\ keyOut[2].exc = "none"
    /\ keyOut[1].val # keyOut[2].val

\* C11 (as claimed): storage-backed, the keys of two rows that differ in
\* exactly one of the five fields differ; in both modes the keys of two
\* different root keys differ.
C11_KeySensitivityAsClaimed ==
    keyOut # NoKeys =>
        /\ (flag /\ Cardinality(DifferingFields(keyIn[1].bs_model,
                                                keyIn[2].bs_model)) = 1)
              => KeysDiffer
        /\ keyIn[1].root # keyIn[2].root => KeysDiffer

\* C12 (as claimed): with the switch off, add writes the structure's
\* payload into the one slot of its root, a get after an undisturbed add
\* returns that add's tables, delete returns normally and empties the slot,
\* and the get that follows a delete fails with BlockStructureNotFound.
C12_ExplicitInvalidation ==
    [][~flag => \A p \in Procs, root \in Roots :
        /\ (AddToCache(p) /\ op[p].arg.root_block_usage_key = root)
              => /\ DOMAIN cache' = DOMAIN cache \cup {StaticKey(root)}
                 /\ cache'[StaticKey(root)].value = _serialize(op[p].arg)
        /\ (Get(p, root) /\ lastAdd[root] \in Structures)
              => Returned(result'[p], root, lastAdd[root])
        /\ Delete(p, root)
              => /\ result'[p].exc = "none"
                 /\ StaticKey(root) \notin DOMAIN cache'
        /\ (/\ pc[p] = "done"
            /\ op[p] = [name |-> "delete", arg |-> root]
            /\ Get(p, root))
              => result'[p].exc = "BlockStructureNotFound"]_vars

\* The cache holds, under a key resolvable for root, bytes that do not decode.
HoldsCorrupt(root) ==
    \E k \in ResolvableKeys(root) \cap DOMAIN cache :
        zunpickle(cache[k].value).exc # "none"

\* C13 (as claimed): a get whose root has undecodable bytes under its key
\* fails with the decode error, not with BlockStructureNotFound, and is not
\* served from the durable tier.
C13_CorruptionIsNotAMiss ==
    [][\A p \in Procs, root \in Roots :
        (Get(p, root) /\ HoldsCorrupt(root))
            => /\ result'[p].exc = "DecodeError"
               /\ result'[p].source # "store"]_vars

\* C14 (as claimed): storage-backed, once all callers have finished an add
\* of the same structure with no tier failing, the cache entry under the
\* row's key holds the same bytes as the row's blob.
C14_OneValuePerKey ==
    \A bs \in Structures :
        (/\ flag
         /\ Cardinality(callers) > 1
         /\ \A p \in callers :
               /\ pc[p] = "done"
               /\ op[p] = [name |-> "add", arg |-> bs]
               /\ result[p].exc # "PicklingError")
            => \E row \in BagToSet(store) :
                  /\ row.data_usage_key = bs.root_block_usage_key
                  /\ VersionedKey(row) \in DOMAIN cache
                  /\ get_serialized_data(row).exc = "none"
                  /\ cache[VersionedKey(row)].value = get_serialized_data(row).val

\* Some cache entry is new or has changed in this step.
CacheWritten ==
    \E k \in DOMAIN cache' : k \notin DOMAIN cache \/ cache'[k] # cache[k]

\* C17: in add the upsert is a step before the cache write and no step
\* is repeated; when serialization or the upsert raises, the call ends at
\* once with that exception and cache and table are as before; the cache
\* is written by the last step of an add only.
C17_AddFailureOrdering ==
    [][\A p \in callers :
        /\ (/\ CanCall(p)
            /\ op'[p].name = "add"
            /\ AddSerialize(p, op'[p].arg, TRUE))
              => /\ pc'[p] = "done"
                 /\ result'[p].exc = "PicklingError"
                 /\ cache' = cache
                 /\ store' = store
        /\ (pc[p] = "create_or_update_model" /\ pc'[p] # pc[p])
              => /\ pc'[p] \in {"add_to_cache", "done"}
                 /\ ~CacheWritten
                 /\ \E prep \in PrepOutcomes(ModelKwargs(op[p].arg)) :
                       LET r == _create_or_update_model(
                                    flag, store, op[p].arg,
                                    locals[p].serialized_data, prep)
                       IN  /\ result'[p].exc = r.exc
                           /\ r.exc # "none"
                                 => /\ pc'[p] = "done"
                                    /\ cache' = cache
                                    /\ store' = store
        /\ (pc[p] = "add_to_cache" /\ pc'[p] # pc[p])
              => /\ pc'[p] = "done"
                 /\ store' = store
        /\ (CacheWritten /\ callers = {p})
              => pc[p] = "add_to_cache" /\ pc'[p] = "done"]_vars

\* C17 witness: an add has ended with the upsert's error while the cache
\* held an entry.
C17_Witness ==
    \E p \in callers :
        /\ pc[p] = "done"
        /\ op[p].name = "add"
        /\ result[p].exc \in PrepErrors(ModelKwargs(op[p].arg))
        /\ cache # EmptyCache

\* C18 (as claimed): an add whose upsert step ran with the switch off, so
\* that it has no row, and whose cache step runs with the switch on either
\* succeeds or fails with BlockStructureNotFound.
C18_FlagToggledMidAdd ==
    [][\A p \in Procs :
        (/\ AddToCache(p)
         /\ flag
         /\ callers = {p}
         /\ locals[p].bs_model = None)
            => result'[p].exc \in {"none", "BlockStructureNotFound"}]_vars

\* C19: every cache entry carries a timeout of exactly 86400 seconds.
C19_FixedTTL ==
    \A k \in DOMAIN cache : cache[k].timeout = 86400

\* C19 witness: adds have written entries for both roots, one of them while
\* the table had a row (the switch has been on and off).
C19_Witness ==
    /\ \A root \in Roots : StaticKey(root) \in DOMAIN cache
    /\ store # EmptyBag

====
